---- MODULE Spec2Model ----
(***************************************************************************)
(* Model of hcmetanode: MetaNode (metanode.py), its fields (fields.py) and *)
(* validators (validators.py) over a Maya scene.  The scene (maya.cmds) is *)
(* modelled as typed, lockable attribute slots per node; Python objects    *)
(* live in a heap indexed by allocation number, so that `is` is equality   *)
(* of heap indices.                                                        *)
(***************************************************************************)
EXTENDS Integers, Sequences, FiniteSets, TLC

(***************************************************************************)
(* Bounds                                                                  *)
(***************************************************************************)
\* integers a client sets or the scene holds are 0..MaxVal
MaxVal == 1
\* initialize() runs are counted up to MaxInit per node
MaxInit == 2
\* a multi attribute holds at most MaxLen elements
MaxLen == 2

(***************************************************************************)
(* Python and Maya values, tagged by type                                  *)
(***************************************************************************)
None == [t |-> "none"]
PyInt(i) == [t |-> "int", i |-> i]
PyBool(b) == [t |-> "bool", b |-> b]
PyStr(s) == [t |-> "str", s |-> s]
\* a dict with string keys, as a function
PyDict(d) == [t |-> "dict", d |-> d]
\* a list, as a sequence
PyList(q) == [t |-> "list", q |-> q]
\* the text json.dumps produces for the dict d
JsonText(d) == [t |-> "jsontext", d |-> d]
\* a float; the floats used here have integral values
PyFloat(x) == [t |-> "float", x |-> x]
\* an om2.MMatrix, as the sequence of its 16 numbers, row after row
PyMatrix(m) == [t |-> "matrix", m |-> m]

EmptyDict == <<>>

\* Python truthiness (`if value`, `bool(value)`), for the values above.
Truthy(v) ==
    CASE v.t = "none" -> FALSE
      [] v.t = "int" -> v.i # 0
      [] v.t = "float" -> v.x # 0
      [] v.t = "bool" -> v.b
      [] v.t = "str" -> v.s # ""
      [] v.t = "dict" -> DOMAIN v.d # {}
      [] v.t = "list" -> Len(v.q) > 0
      [] OTHER -> TRUE

(***************************************************************************)
(* The scene: nodes, their names, classes registered in the interpreter    *)
(***************************************************************************)
Nodes == {"n1", "n2"}

\* get_uuid(mobject): the scene UUID of a node; it survives renames.
get_uuid(n) == IF n = "n1" THEN "UUID-1" ELSE "UUID-2"

Uuids == {get_uuid(n) : n \in Nodes}

\* cmds.ls(uuid): the node carrying a UUID
NodeOfUuid(u) == CHOOSE n \in Nodes : get_uuid(n) = u

\* Names a caller can pass: short name and full path of each node.
NodeNames == {"a", "|a", "b"}

\* get_mobject(node): resolve a name or path to the node it designates.
get_mobject(name) == IF name \in {"a", "|a"} THEN "n1" ELSE "n2"

\* MetaNode.path() of the instance of node n
PathOf(n) == IF n = "n1" THEN "|a" ELSE "b"

\* something that is not a basestring (e.g. a MetaNode passed by mistake)
NotAString == "<object>"

\* MetaNode and two subclasses declared by client code: Rig(MetaNode), Arm(Rig)
Classes == {"MetaNode", "Rig", "Arm"}

\* cls.__subclasses__()
DirectSubclasses(c) ==
    CASE c = "MetaNode" -> {"Rig"}
      [] c = "Rig" -> {"Arm"}
      [] OTHER -> {}

\* all_subclasses without the recursion
direct_subclasses_only(c) == DirectSubclasses(c)

RECURSIVE all_subclasses(_)
\* utils.all_subclasses: direct subclasses and, recursively, theirs
all_subclasses(c) ==
    DirectSubclasses(c) \cup UNION {all_subclasses(s) : s \in DirectSubclasses(c)}

\* isinstance(obj of class c, k)
IsInstanceOf(c, k) == c = k \/ c \in all_subclasses(k)

(***************************************************************************)
(* validators.py: stateless codecs                                         *)
(***************************************************************************)
\* all_subclasses(FieldValidator) of the codecs modelled here
Validators ==
    {"IntValidator", "FloatValidator", "BoolValidator", "StringValidator",
     "MatrixValidator", "EnumValidator", "JsonValidator"}

\* a result of an operation that may raise
Ok(v) == [exc |-> "none", val |-> v]
Raise(e) == [exc |-> e, val |-> None]

Digits == <<"0", "1", "2", "3", "4", "5", "6", "7", "8", "9">>

\* int(value) of Python 2
PyIntOf(v) ==
    CASE v.t = "int" -> Ok(v)
      [] v.t = "bool" -> Ok(PyInt(IF v.b THEN 1 ELSE 0))
      [] v.t = "str" ->
            IF \E k \in 1..Len(Digits) : Digits[k] = v.s
            THEN Ok(PyInt((CHOOSE k \in 1..Len(Digits) : Digits[k] = v.s) - 1))
            ELSE Raise("ValueError")
      [] OTHER -> Raise("TypeError")

\* float(value) of Python 2
PyFloatOf(v) ==
    CASE v.t = "float" -> Ok(v)
      [] v.t = "int" -> Ok(PyFloat(v.i))
      [] v.t = "bool" -> Ok(PyFloat(IF v.b THEN 1 ELSE 0))
      [] v.t = "str" ->
            IF \E k \in 1..Len(Digits) : Digits[k] = v.s
            THEN Ok(PyFloat((CHOOSE k \in 1..Len(Digits) : Digits[k] = v.s) - 1))
            ELSE Raise("ValueError")
      [] OTHER -> Raise("TypeError")

\* om2.MMatrix(): the identity
IdentityMatrix == <<1, 0, 0, 0,  0, 1, 0, 0,  0, 0, 1, 0,  0, 0, 0, 1>>

\* the list of 16 floats cmds.getAttr returns for a matrix
MatrixList(m) == PyList([i \in 1..16 |-> PyFloat(m[i])])

\* om2.MMatrix(value): from a sequence of 16 numbers or from a matrix
MMatrix(v) ==
    CASE v.t = "matrix" -> Ok(v)
      [] v.t = "list" ->
            IF Len(v.q) = 16 /\ \A i \in 1..16 : v.q[i].t = "float"
            THEN Ok(PyMatrix([i \in 1..16 |-> v.q[i].x]))
            ELSE Raise("ValueError")
      [] OTHER -> Raise("ValueError")

\* str(value) of Python 2
PyStrOf(v) ==
    CASE v.t = "str" -> Ok(v)
      [] v.t = "jsontext" -> Ok(v)
      [] v.t = "int" -> IF v.i \in 0..9 THEN Ok(PyStr(Digits[v.i + 1])) ELSE Ok(PyStr("<int>"))
      [] v.t = "float" -> Ok(PyStr("<float>"))
      [] v.t = "bool" -> Ok(PyStr(IF v.b THEN "True" ELSE "False"))
      [] v.t = "none" -> Ok(PyStr("None"))
      [] OTHER -> Ok(PyStr("<repr>"))

\* json.dumps(value)
JsonDumps(v) ==
    CASE v.t = "dict" -> Ok(JsonText(v.d))
      [] v.t = "int" -> PyStrOf(v)
      [] v.t = "bool" -> Ok(PyStr(IF v.b THEN "true" ELSE "false"))
      [] v.t = "none" -> Ok(PyStr("null"))
      [] v.t = "str" -> Ok(PyStr("\"" \o v.s \o "\""))
      [] OTHER -> Raise("TypeError")

\* the texts whose JSON form json.loads is given here
JsonStrings == {"", "Jeff"}

\* json.loads(text)
JsonLoads(v) ==
    CASE v.t = "jsontext" -> Ok(PyDict(v.d))
      [] v.t = "str" ->
            IF v.s = "true" THEN Ok(PyBool(TRUE))
            ELSE IF v.s = "false" THEN Ok(PyBool(FALSE))
            ELSE IF v.s = "null" THEN Ok(None)
            ELSE IF \E x \in JsonStrings : v.s = "\"" \o x \o "\""
            THEN Ok(PyStr(CHOOSE x \in JsonStrings : v.s = "\"" \o x \o "\""))
            ELSE IF \E k \in 1..Len(Digits) : Digits[k] = v.s THEN PyIntOf(v)
            ELSE Raise("ValueError")
      [] OTHER -> Raise("TypeError")

\* <Validator>.to_attribute(value): the value handed to cmds.setAttr
to_attribute(validator, v) ==
    CASE validator = "IntValidator" -> PyIntOf(v)
      [] validator = "FloatValidator" -> PyFloatOf(v)
      [] validator = "BoolValidator" -> Ok(PyBool(Truthy(v)))
      [] validator = "StringValidator" -> PyStrOf(v)
      [] validator = "JsonValidator" -> JsonDumps(IF v = None THEN PyDict(EmptyDict) ELSE v)
      [] OTHER -> Ok(v)

\* a from_attribute that decodes nothing
from_attribute_raw(validator, raw) == Ok(raw)

\* <Validator>.from_attribute(value): the value of cmds.getAttr, made Pythonic
from_attribute(validator, raw) ==
    CASE validator = "JsonValidator" ->
            JsonLoads(IF raw = None THEN JsonText(EmptyDict) ELSE raw)
      [] validator = "MatrixValidator" -> MMatrix(raw)
      [] OTHER -> Ok(raw)

\* <Validator>.serialize(value)
ValidatorSerialize(validator, v) ==
    IF validator = "MatrixValidator" /\ v.t = "matrix" THEN MatrixList(v.m) ELSE v

\* <Validator>.get_default_value()
get_default_value(validator) ==
    CASE validator = "IntValidator" -> PyInt(0)
      [] validator = "FloatValidator" -> PyFloat(0)
      [] validator = "BoolValidator" -> PyBool(FALSE)
      [] validator = "StringValidator" -> PyStr("")
      [] validator = "MatrixValidator" -> PyMatrix(IdentityMatrix)
      [] validator = "JsonValidator" -> PyDict(EmptyDict)
      [] OTHER -> None

\* <Validator>.create_attribute_kwargs: the Maya type of the slot
create_attribute_kwargs(validator) ==
    CASE validator = "IntValidator" -> "long"
      [] validator = "FloatValidator" -> "double"
      [] validator = "BoolValidator" -> "bool"
      [] validator = "MatrixValidator" -> "matrix"
      [] validator = "EnumValidator" -> "enum"
      [] OTHER -> "string"

(***************************************************************************)
(* maya.cmds on one scene: scene[n] is the state of node n                 *)
(***************************************************************************)
ReservedNames == {"metanode_fields", "metanode_type", "is_initialized"}
CustomNames == {"count", "items"}
\* the field that refers to another MetaNode (test_meta_node_validator)
RefNames == {"other_node"}
\* the field declared once with each validator in turn
KindNames == {"value"}
AttrNames == ReservedNames \cup CustomNames \cup RefNames \cup KindNames

NoAttr == [kind |-> "absent"]

\* a node that cmds.createNode has not created yet, or cmds.delete removed
Unborn == [life |-> "unborn", attrs |-> [a \in AttrNames |-> NoAttr]]

\* value of a fresh attribute of a Maya type
MayaDefault(type) ==
    CASE type = "long" -> PyInt(0)
      [] type = "enum" -> PyInt(0)
      [] type = "double" -> PyFloat(0)
      [] type = "bool" -> PyBool(FALSE)
      [] type = "matrix" -> MatrixList(IdentityMatrix)
      [] OTHER -> None

\* cmds.objExists(node)
objExists(scene, n) == scene[n].life = "alive"

\* cmds.attributeQuery(name, node=n, exists=True)
attributeQuery(scene, n, name) == scene[n].attrs[name] # NoAttr

\* cmds.addAttr(n, longName=name, [multi=True,] keyable=False, **kwargs)
addAttr(scene, n, name, type, multi) ==
    [scene EXCEPT ![n].attrs[name] =
        IF multi
        THEN [kind |-> "multi", type |-> type, elems |-> <<>>, elock |-> <<>>,
              lock |-> FALSE, conn |-> FALSE, cb |-> FALSE]
        ELSE [kind |-> "single", type |-> type, val |-> MayaDefault(type),
              lock |-> FALSE, conn |-> FALSE, cb |-> FALSE]]

\* cmds.getAttr(path) of a single attribute
getAttr(scene, n, name) == scene[n].attrs[name].val

\* cmds.getAttr(path, lock=True)
getLock(scene, n, name) == scene[n].attrs[name].lock

\* cmds.setAttr(path, lock=b)
setLock(scene, n, name, b) == [scene EXCEPT ![n].attrs[name].lock = b]

\* cmds.setAttr(path, edit=True, channelBox=True)
setChannelBox(scene, n, name) == [scene EXCEPT ![n].attrs[name].cb = TRUE]

\* cmds.listConnections(path, source=True, destination=False), as a boolean
listConnections(scene, n, name) == scene[n].attrs[name].conn

\* what a slot of a Maya type stores for a value, or an error
MayaCoerce(type, raw) ==
    CASE type = "long" /\ raw.t = "int" -> Ok(raw)
      [] type = "long" /\ raw.t = "bool" -> Ok(PyInt(IF raw.b THEN 1 ELSE 0))
      [] type = "bool" /\ raw.t = "bool" -> Ok(raw)
      [] type = "bool" /\ raw.t = "int" -> Ok(PyBool(raw.i # 0))
      [] type = "string" /\ raw.t \in {"str", "jsontext"} -> Ok(raw)
      [] type = "enum" /\ raw.t = "int" -> Ok(raw)
      [] type = "double" /\ raw.t = "float" -> Ok(raw)
      [] type = "double" /\ raw.t = "int" -> Ok(PyFloat(raw.i))
      [] type = "matrix" /\ raw.t = "matrix" -> Ok(MatrixList(raw.m))
      [] type = "matrix" /\ raw.t = "list" /\ MMatrix(raw).exc = "none" -> Ok(raw)
      [] OTHER -> Raise("RuntimeError")

\* cmds.setAttr(path, value, **set_attribute_kwargs): Maya refuses to set a
\* locked or a driven attribute
setAttr(scene, n, name, raw) ==
    LET slot == scene[n].attrs[name]
        c == MayaCoerce(slot.type, raw)
    IN  IF slot.lock \/ slot.conn \/ c.exc # "none"
        THEN [exc |-> "RuntimeError", scene |-> scene]
        ELSE [exc |-> "none", scene |-> [scene EXCEPT ![n].attrs[name].val = c.val]]

(***************************************************************************)
(* cmds and MPlug on multi (array) attributes                              *)
(***************************************************************************)
\* mplug.numElements()
numElements(scene, n, name) == Len(scene[n].attrs[name].elems)

\* cmds.getAttr("path[i]"), i counted from 0
getElem(scene, n, name, i) == scene[n].attrs[name].elems[i + 1]

\* cmds.setAttr("path[i]", lock=b) for every existing element
setElemLocks(scene, n, name, b) ==
    [scene EXCEPT ![n].attrs[name].elock =
        [k \in 1..Len(scene[n].attrs[name].elems) |-> b]]

\* cmds.removeMultiInstance(path, allChildren=True, b=True): drops every
\* element and breaks incoming connections
removeMultiInstance(scene, n, name) ==
    [scene EXCEPT ![n].attrs[name].elems = <<>>,
                  ![n].attrs[name].elock = <<>>,
                  ![n].attrs[name].conn = FALSE]

\* cmds.setAttr("path[i]", value, **kwargs) with i the next free index:
\* the element is created unlocked
appendElem(scene, n, name, raw) ==
    LET slot == scene[n].attrs[name]
        c == MayaCoerce(slot.type, raw)
    IN  IF slot.lock \/ c.exc # "none"
        THEN [exc |-> "RuntimeError", scene |-> scene]
        ELSE [exc |-> "none",
              scene |-> [scene EXCEPT ![n].attrs[name].elems = Append(@, c.val),
                                      ![n].attrs[name].elock = Append(@, FALSE)]]

(***************************************************************************)
(* fields.py                                                               *)
(***************************************************************************)
\* Accessibility.private.value, Accessibility.public.value
private == 1
public == 2

\* get_field_class that hands out MultiField for every multi declaration
get_field_class_any_multi(accessibility, multi) ==
    IF multi THEN Ok("MultiField")
    ELSE Ok(IF accessibility = public THEN "PublicField" ELSE "Field")

\* get_field_class(accessibility, multi)
get_field_class(accessibility, multi) ==
    IF multi
    THEN IF accessibility = private THEN Ok("MultiField") ELSE Raise("ValueError")
    ELSE Ok(IF accessibility = public THEN "PublicField" ELSE "Field")

\* a field object: its class, its validator class and self._value
FieldObj(cls, validator, value) == [cls |-> cls, validator |-> validator, value |-> value]

\* SingleFieldBase.create_attribute, PublicField.create_attribute,
\* MultiField.create_attribute
create_attribute(scene, n, fcls, validator, name) ==
    IF attributeQuery(scene, n, name)
    THEN scene
    ELSE LET Shown(added) ==
                 IF fcls = "PublicField" THEN setChannelBox(added, n, name) ELSE added
         IN  Shown(addAttr(scene, n, name, create_attribute_kwargs(validator),
                           fcls = "MultiField"))

RECURSIVE ReadElems(_, _, _, _, _)
\* the loop of MultiField.read over _iter_elements, from element i on
ReadElems(scene, n, name, validator, i) ==
    IF i >= numElements(scene, n, name)
    THEN Ok(<<>>)
    ELSE LET Cons(v, rest) ==
                 IF v.exc # "none" THEN Raise(v.exc)
                 ELSE IF rest.exc # "none" THEN rest
                 ELSE Ok(<<v.val>> \o rest.val)
         IN  Cons(from_attribute(validator, getElem(scene, n, name, i)),
                  ReadElems(scene, n, name, validator, i + 1))

\* Field.read (PublicField inherits it), MultiField.read: the field after
\* the read, or the exception from_attribute raised
FieldRead(scene, n, name, f) ==
    LET Listed(r) ==
            IF r.exc # "none" THEN [exc |-> r.exc, field |-> f]
            ELSE [exc |-> "none", field |-> [f EXCEPT !.value = PyList(r.val)]]
        Decoded(v) ==
            IF v.exc # "none" THEN [exc |-> v.exc, field |-> f]
            ELSE [exc |-> "none", field |-> [f EXCEPT !.value = v.val]]
        Fetched(raw) ==
            IF raw = None
            THEN [exc |-> "none", field |-> f]
            ELSE Decoded(from_attribute(f.validator, raw))
    IN  IF f.cls = "MultiField"
        THEN Listed(ReadElems(scene, n, name, f.validator, 0))
        ELSE Fetched(getAttr(scene, n, name))

\* default_value of **kwargs, None when absent
KwDefault(kwargs) ==
    IF "default_value" \in DOMAIN kwargs THEN kwargs["default_value"] ELSE None

\* FieldBase.__init__ / MultiField.__init__: the initial value, the slot
\* created when missing, then a first read()
FieldInit(scene, n, fcls, validator, name, kwargs) ==
    LET Initial(dflt) == IF dflt # None THEN dflt ELSE get_default_value(validator)
        value == Initial(IF fcls = "MultiField" /\ KwDefault(kwargs) = None
                         THEN PyList(<<>>)
                         ELSE KwDefault(kwargs))
        Built(scene1, r) == [exc |-> r.exc, scene |-> scene1, field |-> r.field]
        Created(scene1) ==
            Built(scene1, FieldRead(scene1, n, name, FieldObj(fcls, validator, value)))
    IN  Created(create_attribute(scene, n, fcls, validator, name))

\* a get() that reads the slot again for every field class
FieldGetFresh(scene, n, name, f) ==
    LET Got(r) == [exc |-> r.exc, field |-> r.field, ret |-> r.field.value]
    IN  Got(FieldRead(scene, n, name, f))

\* Field.get, MultiField.get return self._value; PublicField.get returns
\* what read() returns, and read() has no return statement
FieldGet(scene, n, name, f) ==
    LET Got(r) == [exc |-> r.exc, field |-> r.field, ret |-> None]
    IN  IF f.cls = "PublicField"
        THEN Got(FieldRead(scene, n, name, f))
        ELSE [exc |-> "none", field |-> f, ret |-> f.value]

\* FieldBase._protect_attribute / PublicField._protect_attribute, entry
ProtectEnter(scene, n, name, f) ==
    IF f.cls = "PublicField" THEN scene ELSE setLock(scene, n, name, FALSE)

\* FieldBase._protect_attribute / PublicField._protect_attribute, exit
ProtectExit(scene, n, name, f) ==
    IF f.cls = "PublicField" THEN scene ELSE setLock(scene, n, name, TRUE)

\* Field.write without the try block around to_attribute
SingleWriteRaising(scene, n, name, f) ==
    LET Stored(s1, w) ==
            IF w.exc # "none"
            THEN [exc |-> w.exc, scene |-> s1]
            ELSE [exc |-> "none", scene |-> ProtectExit(w.scene, n, name, f)]
        Encoded(enc) ==
            IF enc.exc # "none"
            THEN [exc |-> enc.exc, scene |-> scene]
            ELSE Stored(ProtectEnter(scene, n, name, f),
                        setAttr(ProtectEnter(scene, n, name, f), n, name, enc.val))
    IN  Encoded(to_attribute(f.validator, f.value))

\* Field.write that encodes and then stores nothing
SingleWriteNoStore(scene, n, name, f) == [exc |-> "none", scene |-> scene]

\* Field.write (PublicField inherits it): an encoding error is logged and
\* swallowed; a driven slot is left alone; an error of setAttr propagates
\* out of the with block, whose generator then never relocks
SingleWrite(scene, n, name, f) ==
    LET Stored(s1, w) ==
            IF w.exc # "none"
            THEN [exc |-> w.exc, scene |-> s1]
            ELSE [exc |-> "none", scene |-> ProtectExit(w.scene, n, name, f)]
        Unlocked(s1, enc) ==
            IF listConnections(s1, n, name)
            THEN [exc |-> "none", scene |-> ProtectExit(s1, n, name, f)]
            ELSE Stored(s1, setAttr(s1, n, name, enc.val))
        Encoded(enc) ==
            IF enc.exc # "none"
            THEN [exc |-> "none", scene |-> scene]
            ELSE Unlocked(ProtectEnter(scene, n, name, f), enc)
    IN  Encoded(to_attribute(f.validator, f.value))

\* _clear_maya_attribute without the removeMultiInstance call
ClearKeepsElements(scene, n, name) ==
    setElemLocks(setLock(scene, n, name, FALSE), n, name, FALSE)

\* MultiField._clear_maya_attribute
clear_maya_attribute(scene, n, name) ==
    removeMultiInstance(
        setElemLocks(setLock(scene, n, name, FALSE), n, name, FALSE), n, name)

RECURSIVE WriteElems(_, _, _, _, _, _)
\* the loop of MultiField.write over enumerate(value), from index i on
WriteElems(scene, n, name, validator, q, i) ==
    LET Stored(w) ==
            IF w.exc # "none" THEN w
            ELSE WriteElems(w.scene, n, name, validator, q, i + 1)
        Encoded(enc) ==
            IF enc.exc # "none"
            THEN [exc |-> enc.exc, scene |-> scene]
            ELSE Stored(appendElem(scene, n, name, enc.val))
    IN  IF i > Len(q)
        THEN [exc |-> "none", scene |-> scene]
        ELSE Encoded(to_attribute(validator, q[i]))

\* MultiField.write: unlock the elements, clear the slot, store the
\* elements in order, lock them; an exception skips the final locking
MultiWrite(scene, n, name, f) ==
    LET Locked(w) ==
            IF w.exc # "none" THEN w
            ELSE [exc |-> "none", scene |-> setElemLocks(w.scene, n, name, TRUE)]
        s1 == setElemLocks(scene, n, name, FALSE)
        s2 == clear_maya_attribute(s1, n, name)
    IN  Locked(WriteElems(s2, n, name, f.validator, f.value.q, 1))

\* field.write() of any field class
FieldWrite(scene, n, name, f) ==
    IF f.cls = "MultiField" THEN MultiWrite(scene, n, name, f)
    ELSE SingleWrite(scene, n, name, f)

\* PublicField.set without its call of write()
FieldSetBufferOnly(scene, n, name, f, v) ==
    [exc |-> "none", scene |-> scene, field |-> [f EXCEPT !.value = v]]

\* Field.set and MultiField.set store the value; PublicField.set stores it
\* and calls write()
FieldSet(scene, n, name, f, v) ==
    LET f1 == [f EXCEPT !.value = v]
        Written(w) == [exc |-> w.exc, scene |-> w.scene, field |-> f1]
    IN  IF f.cls = "PublicField"
        THEN Written(FieldWrite(scene, n, name, f1))
        ELSE [exc |-> "none", scene |-> scene, field |-> f1]

\* FieldBase.serialize, MultiField.serialize
FieldSerialize(scene, n, name, f) ==
    LET Reported(g) ==
            IF g.exc # "none" THEN [exc |-> g.exc, field |-> g.field, ret |-> None]
            ELSE IF f.cls = "MultiField" /\ ~Truthy(g.ret)
                 THEN [exc |-> "none", field |-> g.field, ret |-> PyList(<<>>)]
                 ELSE [exc |-> "none", field |-> g.field,
                       ret |-> ValidatorSerialize(f.validator, g.ret)]
    IN  Reported(FieldGet(scene, n, name, f))

\* MultiField.clear without _clear_python_attribute
FieldClearStoreOnly(scene, n, name, f) ==
    [exc |-> "none", scene |-> clear_maya_attribute(scene, n, name), field |-> f]

\* MultiField.clear: _clear_python_attribute, then _clear_maya_attribute
FieldClear(scene, n, name, f) ==
    [exc |-> "none", scene |-> clear_maya_attribute(scene, n, name),
     field |-> [f EXCEPT !.value = PyList(<<>>)]]

(***************************************************************************)
(* metanode.py: operations on one MetaNode object                          *)
(*   a MetaNode object is [cls, node, fields]; fields maps the declared    *)
(*   names to field objects (self.fields)                                  *)
(***************************************************************************)
\* the object super().__new__(class_to_instantiate) returns: no attribute yet
NewObj(cls) == [cls |-> cls, node |-> "", fields |-> <<>>]

\* a descriptor that records every field as private
FieldDataPrivate(validator, multi, accessibility, kwargs) ==
    kwargs @@ [validator |-> validator, multi |-> multi, accessibility |-> private]

\* the dict add_field stores in the schema blob for a field
FieldData(validator, multi, accessibility, kwargs) ==
    kwargs @@ [validator |-> validator, multi |-> multi, accessibility |-> accessibility]

\* MetaNode.__getattr__(name).get() for name = "metanode_fields": the schema
\* blob held by the instance
BlobOf(inst) == inst.fields["metanode_fields"].value

\* MetaNode.add_field
add_field(scene, inst, validator, name, accessibility, multi, kwargs) ==
    LET Recorded(fi, inst1, blob) ==
            IF blob.t # "dict"
            THEN [exc |-> "TypeError", scene |-> fi.scene, inst |-> inst1]
            ELSE [exc |-> "none", scene |-> fi.scene,
                  inst |-> [inst1 EXCEPT !.fields["metanode_fields"].value =
                              PyDict((name :> FieldData(validator, multi,
                                              accessibility, kwargs)) @@ blob.d)]]
        Declared(fi, inst1) ==
            Recorded(fi, inst1,
                     FieldGet(fi.scene, inst.node, "metanode_fields",
                              inst1.fields["metanode_fields"]).ret)
        Built(fi) ==
            IF fi.exc # "none"
            THEN [exc |-> fi.exc, scene |-> fi.scene, inst |-> inst]
            ELSE Declared(fi, [inst EXCEPT !.fields = (name :> fi.field) @@ @])
        Classed(fc) ==
            IF fc.exc # "none"
            THEN [exc |-> fc.exc, scene |-> scene, inst |-> inst]
            ELSE Built(FieldInit(scene, inst.node, fc.val, validator, name, kwargs))
    IN  Classed(get_field_class(accessibility, multi))

\* Accessibility(value): the enum member of a stored value
IsAccessibility(x) == x \in {private, public}

\* what is left of a stored descriptor after the three pop() calls
RestKwargs(data) ==
    [k \in DOMAIN data \ {"validator", "accessibility", "multi"} |-> data[k]]

\* a loop that declares nothing
RedeclareNothing(scene, inst, items, todo) ==
    [exc |-> "none", scene |-> scene, inst |-> inst]

RECURSIVE RedeclareItems(_, _, _, _)
\* the loop of add_default_fields over metanode_fields.get().items(): items
\* is the list taken before the loop, todo the names not yet visited
RedeclareItems(scene, inst, items, todo) ==
    LET Added(name, r) ==
            IF r.exc # "none" THEN r
            ELSE RedeclareItems(r.scene, r.inst, items, todo \ {name})
        Visit(name, data) ==
            IF ~({"validator", "accessibility", "multi"} \subseteq DOMAIN data)
            THEN [exc |-> "KeyError", scene |-> scene, inst |-> inst]
            ELSE IF ~IsAccessibility(data["accessibility"])
            THEN [exc |-> "ValueError", scene |-> scene, inst |-> inst]
            ELSE IF data["validator"] \notin Validators
            THEN RedeclareItems(scene, inst, items, todo \ {name})
            ELSE Added(name, add_field(scene, inst, data["validator"], name,
                                       data["accessibility"], data["multi"],
                                       RestKwargs(data)))
        Item(name) == Visit(name, items[name])
    IN  IF todo = {}
        THEN [exc |-> "none", scene |-> scene, inst |-> inst]
        ELSE Item(CHOOSE x \in todo : TRUE)

\* Field.set on a field of the instance
SetValue(inst, name, v) == [inst EXCEPT !.fields[name].value = v]

\* MetaNode.add_default_fields
add_default_fields(scene, inst) ==
    LET Typed(r3) ==
            IF r3.exc # "none" THEN r3
            ELSE add_field(r3.scene,
                           SetValue(r3.inst, "metanode_type", PyStr(r3.inst.cls)),
                           "BoolValidator", "is_initialized", private, FALSE, <<>>)
        Redeclared(r2) ==
            IF r2.exc # "none" THEN r2
            ELSE Typed(add_field(r2.scene, r2.inst, "StringValidator",
                                 "metanode_type", private, FALSE, <<>>))
        Listed(r1, items) ==
            Redeclared(RedeclareItems(r1.scene, r1.inst, items, DOMAIN items))
        Schema(r1) ==
            IF r1.exc # "none" THEN r1
            ELSE Listed(r1, BlobOf(r1.inst).d)
    IN  Schema(add_field(scene, inst, "JsonValidator", "metanode_fields", private,
                         FALSE, <<>>))

\* MetaNode.read_fields: read() of every field; each read touches its own
\* field only
read_fields(scene, inst) ==
    LET rd(name) == FieldRead(scene, inst.node, name, inst.fields[name])
    IN  IF \E name \in DOMAIN inst.fields : rd(name).exc # "none"
        THEN [exc |-> rd(CHOOSE name \in DOMAIN inst.fields : rd(name).exc # "none").exc,
              inst |-> inst]
        ELSE [exc |-> "none",
              inst |-> [inst EXCEPT !.fields =
                            [name \in DOMAIN inst.fields |-> rd(name).field]]]

RECURSIVE write_fields(_, _, _)
\* MetaNode.write_fields: write() of every field, in the order the dict
\* self.fields yields them; an exception ends the loop
write_fields(scene, inst, order) ==
    LET Written(w) ==
            IF w.exc # "none" THEN w
            ELSE write_fields(w.scene, inst, Tail(order))
    IN  IF order = <<>>
        THEN [exc |-> "none", scene |-> scene]
        ELSE Written(FieldWrite(scene, inst.node, Head(order), inst.fields[Head(order)]))

RECURSIVE Orders(_)
\* the orders in which a dict holding the keys S can yield them
Orders(S) ==
    IF S = {} THEN {<<>>}
    ELSE UNION {{<<x>> \o q : q \in Orders(S \ {x})} : x \in S}

RECURSIVE OneOrder(_)
\* one of these orders
OneOrder(S) ==
    IF S = {} THEN <<>>
    ELSE LET x == CHOOSE y \in S : TRUE IN <<x>> \o OneOrder(S \ {x})

\* the orders of self.fields that lead to different results: when no write
\* raises every order leaves the same scene, and one order stands for all
WriteOrders(scene, inst) ==
    IF \A name \in DOMAIN inst.fields :
           FieldWrite(scene, inst.node, name, inst.fields[name]).exc = "none"
    THEN {OneOrder(DOMAIN inst.fields)}
    ELSE Orders(DOMAIN inst.fields)

\* MetaNode.serialize: the uuid and field.serialize() of every field; a
\* public field is read from the scene on the way
serialize(scene, inst) ==
    LET sr(name) == FieldSerialize(scene, inst.node, name, inst.fields[name])
    IN  [inst |-> [inst EXCEPT !.fields = [name \in DOMAIN inst.fields |-> sr(name).field]],
         ret |-> PyDict(("uuid" :> PyStr(get_uuid(inst.node)))
                        @@ [name \in DOMAIN inst.fields |-> sr(name).ret])]

(***************************************************************************)
(* The interpreter: the identity cache MetaNode._instances, the heap of    *)
(* MetaNode objects, and the scene, gathered in a world record             *)
(*   [scene, instances, heap, inits]                                       *)
(***************************************************************************)
\* the heap holds at most MaxObjs MetaNode objects per interpreter
MaxObjs == 3

\* no object (Python None) as a heap index
NoObj == 0

\* a reference to the heap object of index id, as a return value
ObjRef(id) == [t |-> "obj", id |-> id]

\* a lookup that never finds the entry
CacheGetNothing(instances, u) == NoObj

\* MetaNode._instances.get(uuid)
CacheGet(instances, u) == instances[u]

\* the class lookup of __new__ falling back on cls when no class matches
ResolveClassLenient(scene, cls, n) == Ok(cls)

\* the tail of MetaNode.__new__ after the cache lookup missed: the class to
\* instantiate from the stored class name, or the exception
ResolveClass(scene, cls, n) ==
    LET stored == IF attributeQuery(scene, n, "metanode_type")
                  THEN getAttr(scene, n, "metanode_type")
                  ELSE PyStr(cls)
    IN  IF stored = PyStr(cls) THEN Ok(cls)
        ELSE IF \E sub \in all_subclasses(cls) : stored = PyStr(sub)
        THEN Ok(CHOOSE sub \in all_subclasses(cls) : stored = PyStr(sub))
        ELSE Raise("Exception")

\* MetaNode.initialize is a hook for subclasses; the model counts its runs
RunInitialize(inits, n) == [inits EXCEPT ![n] = @ + 1]

\* MetaNode.__init__(self, node) on the heap object id
MetaNodeInit(w, id, name) ==
    LET n == get_mobject(name)
        u == get_uuid(n)
        known == w.instances[u] # NoObj
        Initialized(r, rr, first) ==
            [exc |-> "none", ret |-> ObjRef(id),
             w |-> [scene |-> r.scene,
                    instances |-> IF known THEN w.instances
                                  ELSE [w.instances EXCEPT ![u] = id],
                    heap |-> [w.heap EXCEPT ![id] =
                                 IF first
                                 THEN SetValue(rr.inst, "is_initialized", PyBool(TRUE))
                                 ELSE rr.inst],
                    inits |-> IF first THEN RunInitialize(w.inits, n) ELSE w.inits]]
        Registered(r, rr) ==
            IF rr.exc # "none"
            THEN [exc |-> rr.exc, ret |-> None,
                  w |-> [w EXCEPT !.scene = r.scene, !.heap[id] = rr.inst]]
            ELSE Initialized(r, rr,
                             ~Truthy(FieldGet(r.scene, n, "is_initialized",
                                              rr.inst.fields["is_initialized"]).ret))
        Declared(r) ==
            IF r.exc # "none"
            THEN [exc |-> r.exc, ret |-> None,
                  w |-> [w EXCEPT !.scene = r.scene, !.heap[id] = r.inst]]
            ELSE Registered(r, IF known THEN [exc |-> "none", inst |-> r.inst]
                               ELSE read_fields(r.scene, r.inst))
    IN  Declared(add_default_fields(w.scene,
                                    [w.heap[id] EXCEPT !.node = n, !.fields = <<>>]))

\* MetaNode.__new__(cls, node): the object to return (already in the heap or
\* appended to it), or the exception
MetaNodeNew(w, cls, node) ==
    LET Resolved(c) ==
            IF c.exc # "none"
            THEN [exc |-> c.exc, id |-> NoObj, w |-> w]
            ELSE [exc |-> "none", id |-> Len(w.heap) + 1,
                  w |-> [w EXCEPT !.heap = Append(@, NewObj(c.val))]]
        Cached(instance) ==
            IF instance # NoObj
            THEN [exc |-> "none", id |-> instance, w |-> w]
            ELSE Resolved(ResolveClass(w.scene, cls, get_mobject(node)))
    IN  IF node = NotAString
        THEN [exc |-> "TypeError", id |-> NoObj, w |-> w]
        ELSE IF ~objExists(w.scene, get_mobject(node))
        THEN [exc |-> "ValueError", id |-> NoObj, w |-> w]
        ELSE Cached(CacheGet(w.instances, get_uuid(get_mobject(node))))

\* cls(node): type.__call__ runs __new__, then __init__ when the object is
\* an instance of cls
Construct(w, cls, node) ==
    LET Made(o) ==
            IF o.exc # "none" THEN [exc |-> o.exc, ret |-> None, w |-> o.w]
            ELSE IF IsInstanceOf(o.w.heap[o.id].cls, cls)
            THEN MetaNodeInit(o.w, o.id, node)
            ELSE [exc |-> "none", ret |-> ObjRef(o.id), w |-> o.w]
    IN  Made(MetaNodeNew(w, cls, node))

\* cmds.ls(uuid): the living nodes that carry the uuid
ls(scene, u) == {n \in Nodes : get_uuid(n) = u /\ objExists(scene, n)}

\* MetaNode.from_uuid(cls, uuid): MetaNode.__new__(cls, node[0]) called
\* directly, so that no __init__ runs on the object it returns
from_uuid(w, cls, u) ==
    LET Made(o) ==
            IF o.exc # "none" THEN [exc |-> o.exc, ret |-> None, w |-> o.w]
            ELSE [exc |-> "none", ret |-> ObjRef(o.id), w |-> o.w]
    IN  IF ls(w.scene, u) = {}
        THEN [exc |-> "ValueError", ret |-> None, w |-> w]
        ELSE Made(MetaNodeNew(w, cls, PathOf(CHOOSE n \in ls(w.scene, u) : TRUE)))

(***************************************************************************)
(* Fields validated by MetaNodeValidator: their value is a MetaNode        *)
(* object or None, their slot holds the uuid of the node as text, and      *)
(* decoding the slot wraps the node                                        *)
(***************************************************************************)
\* MetaNodeValidator.to_attribute(value): value.uuid() if value else ""
RefToAttribute(hp, v) ==
    IF Truthy(v) THEN PyStr(get_uuid(hp[v.id].node)) ELSE PyStr("")

\* MetaNodeValidator.from_attribute raising for a text that names no node
RefFromAttributeStrict(w, raw) ==
    LET Made(r) == [exc |-> r.exc, val |-> r.ret, w |-> r.w]
    IN  IF ~Truthy(raw) THEN [exc |-> "none", val |-> None, w |-> w]
        ELSE IF ls(w.scene, raw.s) = {} THEN [exc |-> "ValueError", val |-> None, w |-> w]
        ELSE Made(Construct(w, "MetaNode", PathOf(CHOOSE n \in ls(w.scene, raw.s) : TRUE)))

\* MetaNodeValidator.from_attribute(value): None for an empty text or a
\* text cmds.ls finds no node for, otherwise MetaNode(res[0])
RefFromAttribute(w, raw) ==
    LET Made(r) == [exc |-> r.exc, val |-> r.ret, w |-> r.w]
    IN  IF ~Truthy(raw) THEN [exc |-> "none", val |-> None, w |-> w]
        ELSE IF ls(w.scene, raw.s) = {} THEN [exc |-> "none", val |-> None, w |-> w]
        ELSE Made(Construct(w, "MetaNode", PathOf(CHOOSE n \in ls(w.scene, raw.s) : TRUE)))

\* Field.read of the field name of the object id, validated by
\* MetaNodeValidator: the world after the read and the exception raised
RefRead(w, id, name) ==
    LET Decoded(d) ==
            IF d.exc # "none" THEN [exc |-> d.exc, w |-> d.w]
            ELSE [exc |-> "none",
                  w |-> [d.w EXCEPT !.heap[id].fields[name].value = d.val]]
        Fetched(raw) ==
            IF raw = None THEN [exc |-> "none", w |-> w]
            ELSE Decoded(RefFromAttribute(w, raw))
    IN  Fetched(getAttr(w.scene, w.heap[id].node, name))

\* Field.write of such a field: MetaNodeValidator inherits the string slot
\* and set_attribute_kwargs of StringValidator
RefWrite(w, id, name) ==
    SingleWrite(w.scene, w.heap[id].node, name,
                FieldObj("Field", "StringValidator",
                         RefToAttribute(w.heap, w.heap[id].fields[name].value)))

\* add_field(MetaNodeValidator, name, Accessibility.private) on the object
\* id: the field starts from None, its slot is created when missing, and
\* its first read() decodes the slot; when that read raises the field is
\* neither registered nor described in the schema blob
RefAddField(w, id, name) ==
    LET FirstRead(r, rd) ==
            IF rd.exc # "none"
            THEN [exc |-> rd.exc, w |-> [rd.w EXCEPT !.heap[id] = w.heap[id]]]
            ELSE rd
        Declared(r) ==
            IF r.exc # "none" THEN [exc |-> r.exc, w |-> [w EXCEPT !.scene = r.scene]]
            ELSE FirstRead(r, RefRead([w EXCEPT !.scene = r.scene,
                                                !.heap[id] = SetValue(r.inst, name, None)],
                                      id, name))
    IN  Declared(add_field(w.scene, w.heap[id], "MetaNodeValidator", name,
                           private, FALSE, <<>>))

(***************************************************************************)
(* State                                                                   *)
(***************************************************************************)
VARIABLES
    scene,      \* the Maya scene: per node, its life and its attribute slots
    instances,  \* MetaNode._instances: uuid -> heap index (NoObj: no entry)
    heap,       \* the MetaNode objects of this interpreter, by allocation
    inits,      \* per node, how many times initialize() has run
    last,       \* the last call made: what was called and what came back
    hist        \* history: first object registered per uuid, scenario so far

vars == <<scene, instances, heap, inits, last, hist>>

World == [scene |-> scene, instances |-> instances, heap |-> heap, inits |-> inits]

SetWorld(w) ==
    /\ scene' = w.scene
    /\ instances' = w.instances
    /\ heap' = w.heap
    /\ inits' = w.inits

\* a call record: hit tells that __new__ found the object in the cache
Call(op, cls, node, name, arg, exc, ret, hit) ==
    [op |-> op, cls |-> cls, node |-> node, name |-> name, arg |-> arg,
     exc |-> exc, ret |-> ret, hit |-> hit]

\* the MetaNode object client code holds for node n: the cached one
InstOf(n) == instances[get_uuid(n)]

\* client code can call into the MetaNode of n
Live(n) == objExists(scene, n) /\ InstOf(n) # NoObj

(***************************************************************************)
(* History kept for the properties (not program state)                     *)
(*   first: per uuid, the object the first successful wrap of this         *)
(*          interpreter returned                                           *)
(*   scen:  how far the last calls follow the sequence                     *)
(*          add_field, [set], write_fields, restart, wrap, [get]           *)
(*          or add_field, [set], restart, wrap; stage "off" disables it;   *)
(*          kinds and driven are taken when write_fields returns           *)
(***************************************************************************)
NoScen(stage) == [stage |-> stage, node |-> "", name |-> "", decl |-> None, v |-> None,
                  kinds |-> <<>>, driven |-> FALSE]

\* class and validator of every field of an instance
KindsOf(inst) ==
    [name \in DOMAIN inst.fields |->
        [cls |-> inst.fields[name].cls, validator |-> inst.fields[name].validator]]

TrackScen(sc, l, hp, sn) ==
    IF sc.stage = "off" THEN sc
    ELSE IF l.exc # "none" THEN NoScen("idle")
    ELSE IF l.op = "add_field"
    THEN [stage |-> "declared", node |-> l.node, name |-> l.name, decl |-> l.arg,
          v |-> None, kinds |-> <<>>, driven |-> FALSE]
    ELSE IF sc.stage = "declared" /\ l.op = "set" /\ l.node = sc.node /\ l.name = sc.name
    THEN [sc EXCEPT !.stage = "set", !.v = l.arg]
    ELSE IF sc.stage \in {"declared", "set"} /\ l.op = "write_fields" /\ l.node = sc.node
    THEN [sc EXCEPT !.stage = "flushed", !.kinds = KindsOf(hp[l.ret.id]),
                    !.driven = listConnections(sn, sc.node, sc.name)]
    ELSE IF sc.stage \in {"declared", "set"} /\ l.op = "restart"
    THEN [sc EXCEPT !.stage = "dropped"]
    ELSE IF sc.stage = "flushed" /\ l.op = "restart"
    THEN [sc EXCEPT !.stage = "restarted"]
    ELSE IF sc.stage = "restarted" /\ l.op = "wrap" /\ l.node = sc.node
    THEN [sc EXCEPT !.stage = "rewrapped"]
    ELSE IF sc.stage = "dropped" /\ l.op = "wrap" /\ l.node = sc.node
    THEN [sc EXCEPT !.stage = "rewrapped_unflushed"]
    ELSE IF sc.stage = "rewrapped" /\ l.op = "get" /\ l.node = sc.node /\ l.name = sc.name
    THEN [sc EXCEPT !.stage = "got"]
    ELSE NoScen("idle")

TrackFirst(first, l) ==
    IF l.op = "restart" THEN [u \in Uuids |-> NoObj]
    ELSE IF l.op \in {"wrap", "new"} /\ l.exc = "none" /\ first[get_uuid(l.node)] = NoObj
    THEN [first EXCEPT ![get_uuid(l.node)] = l.ret.id]
    ELSE first

Track(h, l, hp, sn) ==
    [first |-> TrackFirst(h.first, l), scen |-> TrackScen(h.scen, l, hp, sn)]

(***************************************************************************)
(* Inputs                                                                  *)
(***************************************************************************)
WrapInputs == NodeNames \cup {NotAString}

\* uuids handed to from_uuid: those of the nodes and one of no node
UuidInputs == Uuids \cup {"UUID-0"}

\* the add_field calls client code makes
Decls ==
    {[validator |-> "IntValidator", name |-> "count", accessibility |-> a,
      multi |-> FALSE, kwargs |-> <<>>] : a \in {private, public}}
    \cup
    {[validator |-> "IntValidator", name |-> "items", accessibility |-> a,
      multi |-> TRUE, kwargs |-> <<>>] : a \in {private, public}}

\* the declaration of the private multi field items
PrivateItems == {d \in Decls : d.name = "items" /\ d.accessibility = private}

CountDecls == {d \in Decls : d.name = "count"}

PrivateCount == {d \in CountDecls : d.accessibility = private}

\* values client code sets on an integer field: integers, a numeric text
\* and a text int() rejects
IntInputs == {PyInt(i) : i \in 0..MaxVal} \cup {PyStr("1"), PyStr("x")}

RECURSIVE SeqsUpTo(_, _)
SeqsUpTo(S, k) ==
    IF k = 0 THEN {<<>>}
    ELSE SeqsUpTo(S, k - 1) \cup
         {Append(q, x) : q \in {p \in SeqsUpTo(S, k - 1) : Len(p) = k - 1}, x \in S}

\* elements client code puts in the list of a multi field: an integer,
\* a numeric text and a text int() rejects
ElemInputs == {PyInt(1), PyStr("0"), PyStr("x")}

\* lists client code sets on a multi field
ListInputs == {PyList(q) : q \in SeqsUpTo(ElemInputs, MaxLen)}

\* the matrix test_matrix_validator stores
TestMatrix == <<1, 0, 0, 0,  0, 1, 0, 0,  0, 0, 1, 0,  1, 2, 3, 1>>

\* values client code sets on a single field, by the validator of the field
KindInputs(validator) ==
    CASE validator = "IntValidator" -> IntInputs
      [] validator = "FloatValidator" -> {PyFloat(0), PyFloat(1), PyInt(1)}
      [] validator = "BoolValidator" -> {PyBool(TRUE), PyBool(FALSE)}
      [] validator = "StringValidator" -> {PyStr(""), PyStr("Jeff")}
      [] validator = "MatrixValidator" -> {PyMatrix(IdentityMatrix), PyMatrix(TestMatrix)}
      [] validator = "EnumValidator" -> {PyInt(i) : i \in 0..2}
      [] validator = "JsonValidator" ->
            {None, PyDict(EmptyDict), PyDict([k \in {"a"} |-> PyInt(1)]),
             PyStr("Jeff"), PyInt(1), PyBool(TRUE)}
      [] OTHER -> {}

\* values client code sets on a field
SetInputs(f) == IF f.cls = "MultiField" THEN ListInputs ELSE KindInputs(f.validator)

\* the declarations of one private single field, one for each validator
KindDecls ==
    {[validator |-> v, name |-> "value", accessibility |-> private,
      multi |-> FALSE, kwargs |-> <<>>] : v \in Validators}

\* class names an external edit may store in metanode_type
KindTags == {PyStr(c) : c \in Classes \cup {"Ghost"}}

\* values an external edit (a user in the Maya UI) may store in a slot
ExtInputs(name) ==
    IF name = "metanode_type" THEN KindTags ELSE {PyInt(i) : i \in 0..MaxVal}

(***************************************************************************)
(* Actions                                                                 *)
(***************************************************************************)
InitWorld ==
    /\ scene = [n \in Nodes |-> Unborn]
    /\ instances = [u \in Uuids |-> NoObj]
    /\ heap = <<>>
    /\ inits = [n \in Nodes |-> 0]
    /\ last = Call("start", "", "", "", None, "none", None, FALSE)

Init ==
    /\ InitWorld
    /\ hist = [first |-> [u \in Uuids |-> NoObj], scen |-> NoScen("off")]

\* cmds.createNode("transform"), outside MetaNode
CreateNode(n) ==
    /\ scene[n].life = "unborn"
    /\ scene' = [scene EXCEPT ![n].life = "alive"]
    /\ UNCHANGED <<instances, heap, inits>>
    /\ last' = Call("createNode", "", n, "", None, "none", None, FALSE)
    /\ hist' = Track(hist, last', heap', scene')

\* cmds.delete(node), outside MetaNode: the cache is not told
DeleteNode(n) ==
    /\ scene[n].life = "alive"
    /\ scene' = [scene EXCEPT ![n] = [life |-> "deleted",
                                      attrs |-> [a \in AttrNames |-> NoAttr]]]
    /\ UNCHANGED <<instances, heap, inits>>
    /\ last' = Call("delete", "", n, "", None, "none", None, FALSE)
    /\ hist' = Track(hist, last', heap', scene')

\* cls(node)
Wrap(cls, node) ==
    LET n == IF node = NotAString THEN "" ELSE get_mobject(node)
        Returned(r) ==
            /\ \A m \in Nodes : r.w.inits[m] <= MaxInit
            /\ Len(r.w.heap) <= MaxObjs
            /\ SetWorld(r.w)
            /\ last' = Call("wrap", cls, n, "", PyStr(node), r.exc, r.ret,
                            r.exc = "none" /\ Len(r.w.heap) = Len(heap))
    IN  /\ Returned(Construct(World, cls, node))
        /\ hist' = Track(hist, last', heap', scene')

\* MetaNode.new: cls(cmds.createNode(...))
New(cls, n) ==
    LET Returned(r) ==
            /\ \A m \in Nodes : r.w.inits[m] <= MaxInit
            /\ Len(r.w.heap) <= MaxObjs
            /\ SetWorld(r.w)
            /\ last' = Call("new", cls, n, "", None, r.exc, r.ret,
                            r.exc = "none" /\ Len(r.w.heap) = Len(heap))
    IN  /\ scene[n].life = "unborn"
        /\ Returned(Construct([World EXCEPT !.scene[n].life = "alive"], cls, PathOf(n)))
        /\ hist' = Track(hist, last', heap', scene')

\* cls.from_uuid(uuid)
FromUuid(cls, u) ==
    LET Returned(r) ==
            /\ Len(r.w.heap) <= MaxObjs
            /\ SetWorld(r.w)
            /\ last' = Call("from_uuid", cls,
                            IF ls(scene, u) = {} THEN ""
                            ELSE CHOOSE n \in ls(scene, u) : TRUE,
                            "", PyStr(u), r.exc, r.ret,
                            r.exc = "none" /\ Len(r.w.heap) = Len(heap))
    IN  /\ Returned(from_uuid(World, cls, u))
        /\ hist' = Track(hist, last', heap', scene')

\* the world r.w replaces the current one, within the bounds
Replaced(r) ==
    /\ \A m \in Nodes : r.w.inits[m] <= MaxInit
    /\ Len(r.w.heap) <= MaxObjs
    /\ SetWorld(r.w)

\* metanode.add_field(MetaNodeValidator, name, Accessibility.private)
AddRefField(n, name) ==
    LET Returned(r) ==
            /\ Replaced(r)
            /\ last' = Call("add_field", "", n, name, None, r.exc, None, FALSE)
    IN  /\ Live(n)
        /\ Returned(RefAddField(World, InstOf(n), name))
        /\ hist' = Track(hist, last', heap', scene')

\* metanode.<name>.set(v) with v None or the MetaNode of the living node t
SetRef(n, name, t) ==
    LET v == IF t = "" THEN None ELSE ObjRef(InstOf(t))
    IN  /\ Live(n)
        /\ name \in DOMAIN heap[InstOf(n)].fields \cap RefNames
        /\ t # "" => Live(t)
        /\ heap' = [heap EXCEPT ![InstOf(n)].fields[name].value = v]
        /\ UNCHANGED <<scene, instances, inits>>
        /\ last' = Call("set", "", n, name, v, "none", None, FALSE)
        /\ hist' = Track(hist, last', heap', scene')

\* metanode.<name>.write() of a field validated by MetaNodeValidator
WriteRef(n, name) ==
    LET Returned(r) ==
            /\ scene' = r.scene
            /\ UNCHANGED <<instances, heap, inits>>
            /\ last' = Call("write", "", n, name, None, r.exc, None, FALSE)
    IN  /\ Live(n)
        /\ name \in DOMAIN heap[InstOf(n)].fields \cap RefNames
        /\ Returned(RefWrite(World, InstOf(n), name))
        /\ hist' = Track(hist, last', heap', scene')

\* metanode.<name>.read() of a field validated by MetaNodeValidator
ReadRef(n, name) ==
    LET Returned(r) ==
            /\ Replaced(r)
            /\ last' = Call("read", "", n, name, None, r.exc, None, FALSE)
    IN  /\ Live(n)
        /\ name \in DOMAIN heap[InstOf(n)].fields \cap RefNames
        /\ Returned(RefRead(World, InstOf(n), name))
        /\ hist' = Track(hist, last', heap', scene')

\* metanode.add_field(validator, name, accessibility, multi)
AddField(n, d) ==
    LET Returned(r) ==
            /\ scene' = r.scene
            /\ heap' = [heap EXCEPT ![InstOf(n)] = r.inst]
            /\ UNCHANGED <<instances, inits>>
            /\ last' = Call("add_field", "", n, d.name, d, r.exc, None, FALSE)
    IN  /\ Live(n)
        /\ Returned(add_field(scene, heap[InstOf(n)], d.validator, d.name,
                              d.accessibility, d.multi, d.kwargs))
        /\ hist' = Track(hist, last', heap', scene')

\* metanode.<name>.set(v)
Set(n, name, v) ==
    LET Returned(r) ==
            /\ scene' = r.scene
            /\ heap' = [heap EXCEPT ![InstOf(n)].fields[name] = r.field]
            /\ UNCHANGED <<instances, inits>>
            /\ last' = Call("set", "", n, name, v, r.exc, None, FALSE)
    IN  /\ Live(n)
        /\ name \in DOMAIN heap[InstOf(n)].fields \cap (CustomNames \cup KindNames)
        /\ v \in SetInputs(heap[InstOf(n)].fields[name])
        /\ Returned(FieldSet(scene, n, name, heap[InstOf(n)].fields[name], v))
        /\ hist' = Track(hist, last', heap', scene')

\* metanode.<name>.get()
Get(n, name) ==
    LET Returned(g) ==
            /\ heap' = [heap EXCEPT ![InstOf(n)].fields[name] = g.field]
            /\ UNCHANGED <<scene, instances, inits>>
            /\ last' = Call("get", "", n, name, None, g.exc, g.ret, FALSE)
    IN  /\ Live(n)
        /\ name \in DOMAIN heap[InstOf(n)].fields
        /\ Returned(FieldGet(scene, n, name, heap[InstOf(n)].fields[name]))
        /\ hist' = Track(hist, last', heap', scene')

\* metanode.<name>.write()
Write(n, name) ==
    LET Returned(w) ==
            /\ scene' = w.scene
            /\ UNCHANGED <<instances, heap, inits>>
            /\ last' = Call("write", "", n, name, None, w.exc, None, FALSE)
    IN  /\ Live(n)
        /\ name \in DOMAIN heap[InstOf(n)].fields
        /\ Returned(FieldWrite(scene, n, name, heap[InstOf(n)].fields[name]))
        /\ hist' = Track(hist, last', heap', scene')

\* metanode.<name>.read()
Read(n, name) ==
    LET Returned(r) ==
            /\ heap' = [heap EXCEPT ![InstOf(n)].fields[name] = r.field]
            /\ UNCHANGED <<scene, instances, inits>>
            /\ last' = Call("read", "", n, name, None, r.exc, None, FALSE)
    IN  /\ Live(n)
        /\ name \in DOMAIN heap[InstOf(n)].fields
        /\ Returned(FieldRead(scene, n, name, heap[InstOf(n)].fields[name]))
        /\ hist' = Track(hist, last', heap', scene')

\* metanode.<name>.clear(), a method of MultiField only
Clear(n, name) ==
    LET Returned(r) ==
            /\ scene' = r.scene
            /\ heap' = [heap EXCEPT ![InstOf(n)].fields[name] = r.field]
            /\ UNCHANGED <<instances, inits>>
            /\ last' = Call("clear", "", n, name, None, r.exc, None, FALSE)
    IN  /\ Live(n)
        /\ name \in DOMAIN heap[InstOf(n)].fields
        /\ heap[InstOf(n)].fields[name].cls = "MultiField"
        /\ Returned(FieldClear(scene, n, name, heap[InstOf(n)].fields[name]))
        /\ hist' = Track(hist, last', heap', scene')

\* metanode.write_fields()
WriteFields(n) ==
    LET Returned(w) ==
            /\ scene' = w.scene
            /\ UNCHANGED <<instances, heap, inits>>
            /\ last' = Call("write_fields", "", n, "", None, w.exc,
                            ObjRef(InstOf(n)), FALSE)
    IN  /\ Live(n)
        /\ \E order \in WriteOrders(scene, heap[InstOf(n)]) :
             Returned(write_fields(scene, heap[InstOf(n)], order))
        /\ hist' = Track(hist, last', heap', scene')

\* metanode.read_fields()
ReadFields(n) ==
    LET Returned(r) ==
            /\ heap' = [heap EXCEPT ![InstOf(n)] = r.inst]
            /\ UNCHANGED <<scene, instances, inits>>
            /\ last' = Call("read_fields", "", n, "", None, r.exc, None, FALSE)
    IN  /\ Live(n)
        /\ Returned(read_fields(scene, heap[InstOf(n)]))
        /\ hist' = Track(hist, last', heap', scene')

\* metanode.serialize()
Serialize(n) ==
    LET Returned(r) ==
            /\ heap' = [heap EXCEPT ![InstOf(n)] = r.inst]
            /\ UNCHANGED <<scene, instances, inits>>
            /\ last' = Call("serialize", "", n, "", None, "none", r.ret, FALSE)
    IN  /\ Live(n)
        /\ Returned(serialize(scene, heap[InstOf(n)]))
        /\ hist' = Track(hist, last', heap', scene')

\* cmds.addAttr(node, longName="metanode_type", dataType="string") by
\* anything but MetaNode (test_special_new_type)
ExtAddAttr(n) ==
    /\ objExists(scene, n)
    /\ ~attributeQuery(scene, n, "metanode_type")
    /\ scene' = addAttr(scene, n, "metanode_type", "string", FALSE)
    /\ UNCHANGED <<instances, heap, inits>>
    /\ last' = Call("addAttr", "", n, "metanode_type", None, "none", None, FALSE)
    /\ hist' = Track(hist, last', heap', scene')

\* cmds.setAttr by a user or another tool: Maya lets it through on a slot
\* that is neither locked nor driven
ExtSetAttr(n, name, raw) ==
    LET Stored(w) ==
            /\ w.exc = "none"
            /\ scene' = w.scene
    IN  /\ objExists(scene, n)
        /\ name \in {"count", "metanode_type"}
        /\ attributeQuery(scene, n, name)
        /\ raw \in ExtInputs(name)
        /\ Stored(setAttr(scene, n, name, raw))
        /\ UNCHANGED <<instances, heap, inits>>
        /\ last' = Call("setAttr", "", n, name, raw, "none", None, FALSE)
        /\ hist' = Track(hist, last', heap', scene')

\* cmds.connectAttr(other, slot): the slot becomes driven; Maya refuses a
\* locked destination
ExtConnect(n, name) ==
    /\ objExists(scene, n)
    /\ name \in CustomNames
    /\ attributeQuery(scene, n, name)
    /\ ~scene[n].attrs[name].lock
    /\ ~scene[n].attrs[name].conn
    /\ scene' = [scene EXCEPT ![n].attrs[name].conn = TRUE]
    /\ UNCHANGED <<instances, heap, inits>>
    /\ last' = Call("connectAttr", "", n, name, None, "none", None, FALSE)
    /\ hist' = Track(hist, last', heap', scene')

\* cmds.disconnectAttr(other, slot)
ExtDisconnect(n, name) ==
    /\ objExists(scene, n)
    /\ name \in CustomNames
    /\ attributeQuery(scene, n, name)
    /\ ~scene[n].attrs[name].lock
    /\ scene[n].attrs[name].conn
    /\ scene' = [scene EXCEPT ![n].attrs[name].conn = FALSE]
    /\ UNCHANGED <<instances, heap, inits>>
    /\ last' = Call("disconnectAttr", "", n, name, None, "none", None, FALSE)
    /\ hist' = Track(hist, last', heap', scene')

\* the interpreter ends and a new one opens the same scene: MetaNode
\* objects and the class attribute _instances are gone, the scene stays
Restart ==
    /\ instances' = [u \in Uuids |-> NoObj]
    /\ heap' = <<>>
    /\ UNCHANGED <<scene, inits>>
    /\ last' = Call("restart", "", "", "", None, "none", None, FALSE)
    /\ hist' = Track(hist, last', heap', scene')

(***************************************************************************)
(* Specifications                                                          *)
(***************************************************************************)
\* Identity cache: two nodes wrapped through MetaNode under any name, with
\* field declarations, buffered values, flushes, external edits, deletion
\* and interpreter restarts in between
Next ==
    \/ \E n \in Nodes : CreateNode(n)
    \/ \E n \in Nodes : DeleteNode(n)
    \/ \E node \in WrapInputs : Wrap("MetaNode", node)
    \/ \E n \in Nodes : New("MetaNode", n)
    \/ \E d \in PrivateCount : AddField("n1", d)
    \/ Set("n1", "count", PyInt(1))
    \/ \E n \in Nodes : WriteFields(n)
    \/ \E raw \in ExtInputs("count") : ExtSetAttr("n1", "count", raw)
    \/ Restart

Spec == Init /\ [][Next]_vars

\* Kinds: one node wrapped through every class, with any stored kind tag
NextKind ==
    \/ CreateNode("n1")
    \/ \E cls \in Classes, node \in {"a", NotAString} : Wrap(cls, node)
    \/ \E cls \in Classes : New(cls, "n1")
    \/ \E d \in PrivateCount : AddField("n1", d)
    \/ Set("n1", "count", PyInt(1))
    \/ WriteFields("n1")
    \/ ExtAddAttr("n1")
    \/ \E raw \in KindTags : ExtSetAttr("n1", "metanode_type", raw)
    \/ Restart

SpecKind == Init /\ [][NextKind]_vars

\* Single-value fields: one node, one integer field declared private or
\* public, every field operation, external edits and connections
NextField ==
    \/ CreateNode("n1")
    \/ Wrap("MetaNode", "a")
    \/ \E d \in CountDecls : AddField("n1", d)
    \/ \E v \in IntInputs : Set("n1", "count", v)
    \/ Get("n1", "count")
    \/ Write("n1", "count")
    \/ Read("n1", "count")
    \/ WriteFields("n1")
    \/ ReadFields("n1")
    \/ Serialize("n1")
    \/ \E raw \in ExtInputs("count") : ExtSetAttr("n1", "count", raw)
    \/ ExtConnect("n1", "count")
    \/ ExtDisconnect("n1", "count")
    \/ Restart

SpecField == Init /\ [][NextField]_vars

\* Schema persistence: one node, every declaration, with the scenario
\* history switched on
InitSchema ==
    /\ InitWorld
    /\ hist = [first |-> [u \in Uuids |-> NoObj], scen |-> NoScen("idle")]

NextSchema ==
    \/ CreateNode("n1")
    \/ Wrap("MetaNode", "a")
    \/ \E d \in Decls : AddField("n1", d)
    \/ \E v \in IntInputs : Set("n1", "count", v)
    \/ Set("n1", "items", PyList(<<PyInt(1)>>))
    \/ \E name \in CustomNames : Get("n1", name)
    \/ WriteFields("n1")
    \/ ExtConnect("n1", "count")
    \/ Restart

SpecSchema == InitSchema /\ [][NextSchema]_vars

\* Multi fields: one node wrapped once, one private multi field of
\* integers, every field operation and a connection into the slot
NextMulti ==
    \/ CreateNode("n1")
    \/ ~Live("n1") /\ Wrap("MetaNode", "a")
    \/ \E d \in PrivateItems : AddField("n1", d)
    \/ \E v \in ListInputs : Set("n1", "items", v)
    \/ Get("n1", "items")
    \/ Write("n1", "items")
    \/ Read("n1", "items")
    \/ Clear("n1", "items")
    \/ WriteFields("n1")
    \/ ExtConnect("n1", "items")

SpecMulti == Init /\ [][NextMulti]_vars

\* from_uuid next to wrapping by name: two nodes, wrapped, looked up by
\* uuid, deleted, with a field declared and flushed and interpreter
\* restarts in between
NextUuid ==
    \/ \E n \in Nodes : CreateNode(n)
    \/ DeleteNode("n2")
    \/ \E node \in {"a", "b"} : Wrap("MetaNode", node)
    \/ \E u \in UuidInputs : FromUuid("MetaNode", u)
    \/ \E d \in PrivateCount : AddField("n1", d)
    \/ Set("n1", "count", PyInt(1))
    \/ WriteFields("n1")
    \/ Restart

SpecUuid == Init /\ [][NextUuid]_vars

\* A field of n1 that refers to the MetaNode of n2: n1 is wrapped once and
\* declares, sets, writes, reads and declares again its field other_node;
\* n2 is wrapped, gets a field with a buffered value, is flushed and deleted
NextRef ==
    \/ \E n \in Nodes : CreateNode(n)
    \/ DeleteNode("n2")
    \/ ~Live("n1") /\ Wrap("MetaNode", "a")
    \/ Wrap("MetaNode", "b")
    \/ \E d \in PrivateCount : AddField("n2", d)
    \/ Set("n2", "count", PyInt(1))
    \/ WriteFields("n2")
    \/ AddRefField("n1", "other_node")
    \/ \E t \in {"", "n2"} : SetRef("n1", "other_node", t)
    \/ WriteRef("n1", "other_node")
    \/ ReadRef("n1", "other_node")
    \/ Get("n1", "other_node")

SpecRef == Init /\ [][NextRef]_vars

\* whether the MetaNode of node n has a field called name
Declares(n, name) == Live(n) /\ name \in DOMAIN heap[InstOf(n)].fields

\* One private single field for each validator: client code declares
\* value with one validator, or other_node with MetaNodeValidator, sets
\* values of that kind, and writes and reads the field.
NextRound ==
    \/ \E n \in Nodes : CreateNode(n)
    \/ DeleteNode("n2")
    \/ ~Live("n1") /\ Wrap("MetaNode", "a")
    \/ Wrap("MetaNode", "b")
    \/ \E d \in KindDecls :
          /\ ~Declares("n1", "other_node")
          /\ ~attributeQuery(scene, "n1", "value")
          /\ AddField("n1", d)
    \/ \E v \in UNION {KindInputs(k) : k \in Validators} : Set("n1", "value", v)
    \/ Write("n1", "value")
    \/ Read("n1", "value")
    \/ Get("n1", "value")
    \/ ~Declares("n1", "value") /\ AddRefField("n1", "other_node")
    \/ \E t \in {"", "n2"} : SetRef("n1", "other_node", t)
    \/ WriteRef("n1", "other_node")
    \/ ReadRef("n1", "other_node")

SpecRound == Init /\ [][NextRound]_vars

(***************************************************************************)
(* Properties                                                              *)
(***************************************************************************)
\* the field object of a call record, in the current heap
FieldOfCall(l) == heap[InstOf(l.node)].fields[l.name]

\* the call was a successful cls(node) or cls.new()
Wrapped(l) == l.op \in {"wrap", "new"} /\ l.exc = "none"

\* C1: every successful wrap of an entity returns the very object that the
\* first wrap of this interpreter registered for its uuid, and the cache
\* keeps that entry, whatever happened in between.
IdentityCache ==
    /\ \A u \in Uuids : hist.first[u] # NoObj => instances[u] = hist.first[u]
    /\ Wrapped(last) => last.ret = ObjRef(hist.first[get_uuid(last.node)])

\* C1 witness: the node first wrapped as "a" is wrapped again by its path
\* and found in the cache, after its count slot was edited in the scene and
\* the other node was wrapped too.
IdentityCacheWitness ==
    /\ last.op = "wrap" /\ last.exc = "none" /\ last.hit
    /\ last.arg = PyStr("|a")
    /\ attributeQuery(scene, "n1", "count")
    /\ getAttr(scene, "n1", "count") = PyInt(1)
    /\ instances[get_uuid("n2")] # NoObj

\* C2: a wrap that hits the cache leaves the cached object as it was: same
\* fields, same cached values.
CacheHitLeavesInstance ==
    [][(last'.op = "wrap" /\ last'.hit) =>
          heap'[last'.ret.id] = heap[last'.ret.id]]_vars

\* C3: set(v) on a private single-value field leaves the scene as it is,
\* and get() then returns v.
WriteBack ==
    [][(last'.op = "set" /\ heap'[InstOf(last'.node)].fields[last'.name].cls = "Field") =>
          /\ scene' = scene
          /\ FieldGet(scene', last'.node, last'.name,
                      heap'[InstOf(last'.node)].fields[last'.name]).ret = last'.arg]_vars

\* C3 witness: 1 was set on the private field count while the slot holds 0.
WriteBackWitness ==
    /\ last.op = "set" /\ last.name = "count" /\ last.arg = PyInt(1)
    /\ FieldOfCall(last).cls = "Field"
    /\ getAttr(scene, "n1", "count") = PyInt(0)

\* the private single-value fields of node n whose cached value encodes
\* and whose slot is not driven
Flushable(n) ==
    {name \in DOMAIN heap[InstOf(n)].fields :
        LET f == heap[InstOf(n)].fields[name]
        IN  /\ f.cls = "Field"
            /\ to_attribute(f.validator, f.value).exc = "none"
            /\ ~listConnections(scene, n, name)}

\* what serialize() reports for a field
Serialized(n, name) == serialize(scene, heap[InstOf(n)]).ret.d[name]

WriteThroughAlways ==
    (/\ last.op = "set" /\ last.exc = "none"
     /\ FieldOfCall(last).cls = "PublicField"
     /\ to_attribute(FieldOfCall(last).validator, last.arg).exc = "none")
    => getAttr(scene, last.node, last.name)
         = to_attribute(FieldOfCall(last).validator, last.arg).val

\* C5 amended: set(v) on a public field with an encodable v leaves
\* encode(v) in the slot unless the slot is driven by a connection.
WriteThrough ==
    (/\ last.op = "set" /\ last.exc = "none"
     /\ FieldOfCall(last).cls = "PublicField"
     /\ to_attribute(FieldOfCall(last).validator, last.arg).exc = "none"
     /\ ~listConnections(scene, last.node, last.name))
    => getAttr(scene, last.node, last.name)
         = to_attribute(FieldOfCall(last).validator, last.arg).val

\* C5 witness: the text "1" was set on the public field count and the slot
\* holds the integer 1.
WriteThroughWitness ==
    /\ last.op = "set" /\ last.exc = "none" /\ last.arg = PyStr("1")
    /\ FieldOfCall(last).cls = "PublicField"
    /\ ~listConnections(scene, last.node, last.name)
    /\ getAttr(scene, last.node, last.name) = PyInt(1)

\* C6: get() on a public field returns the decoded current value of the
\* slot.
PublicGetReturnsSlot ==
    (last.op = "get" /\ last.exc = "none" /\ FieldOfCall(last).cls = "PublicField")
    => last.ret = from_attribute(FieldOfCall(last).validator,
                                 getAttr(scene, last.node, last.name)).val

\* C9: initialize() never runs more than once for a node.
InitializeOnce == \A n \in Nodes : inits[n] <= 1

RECURSIVE DescendantsWithin(_, _)
\* k and the classes reached from it in at most d subclass steps
DescendantsWithin(k, d) ==
    IF d = 0 THEN {k}
    ELSE LET S == DescendantsWithin(k, d - 1)
         IN  S \cup UNION {DirectSubclasses(s) : s \in S}

\* k and its direct and transitive subclasses
Descendants(k) == DescendantsWithin(k, Cardinality(Classes))

\* C10: a wrap through class K that misses the cache returns an object of
\* the class the stored metanode_type names when that is K or a subclass of
\* K, and of class K when the node has no metanode_type attribute.
PolymorphicLoad ==
    [][(last'.op \in {"wrap", "new"} /\ last'.node # "" /\ ~last'.hit) =>
        LET n == last'.node
            k == last'.cls
        IN  /\ (objExists(scene, n) /\ attributeQuery(scene, n, "metanode_type")
                /\ \E c \in Descendants(k) :
                        getAttr(scene, n, "metanode_type") = PyStr(c))
               => /\ last'.exc = "none"
                  /\ PyStr(heap'[last'.ret.id].cls) = getAttr(scene, n, "metanode_type")
            /\ ((last'.op = "new" \/ objExists(scene, n))
                /\ ~attributeQuery(scene, n, "metanode_type"))
               => /\ last'.exc = "none"
                  /\ heap'[last'.ret.id].cls = k]_vars

\* C10 witness: a wrap through MetaNode built an Arm, a subclass of a
\* subclass, from the stored name.
PolymorphicLoadWitness ==
    /\ last.op = "wrap" /\ last.exc = "none" /\ ~last.hit
    /\ last.cls = "MetaNode"
    /\ heap[last.ret.id].cls = "Arm"
    /\ getAttr(scene, last.node, "metanode_type") = PyStr("Arm")

\* the scenario history
Scen == hist.scen

\* the instance of node n has a field as the declaration d describes
Exposes(n, d) ==
    /\ d.name \in DOMAIN heap[InstOf(n)].fields
    /\ heap[InstOf(n)].fields[d.name].validator = d.validator
    /\ heap[InstOf(n)].fields[d.name].cls = get_field_class(d.accessibility, d.multi).val

\* C7 as claimed: after add_field, a restart of the interpreter and a new
\* wrap, the instance has the field again, whether or not anything was
\* flushed in between.
SchemaKeptWithoutFlush ==
    Scen.stage \in {"rewrapped", "rewrapped_unflushed"} => Exposes(Scen.node, Scen.decl)

\* C7 amended: after add_field, a write_fields() that returns and stores
\* the schema blob, a restart of the interpreter and a new wrap, the
\* instance has a field of that name with the same validator, multiplicity
\* and accessibility.
SchemaSelfDescription ==
    Scen.stage = "rewrapped" => Exposes(Scen.node, Scen.decl)

\* C7 witness: the multi field items, declared and flushed, is back after
\* a restart and a wrap.
SchemaSelfDescriptionWitness ==
    /\ Scen.stage = "rewrapped"
    /\ Scen.name = "items"
    /\ last.op = "wrap" /\ ~last.hit

\* the descriptors add_default_fields stores for the reserved fields
ReservedData ==
    [metanode_fields |-> FieldData("JsonValidator", FALSE, private, <<>>),
     metanode_type |-> FieldData("StringValidator", FALSE, private, <<>>),
     is_initialized |-> FieldData("BoolValidator", FALSE, private, <<>>)]

\* the stored schema blob of node n holds the descriptor of d and those of
\* the reserved fields
BlobDescribes(n, d) ==
    LET raw == getAttr(scene, n, "metanode_fields")
    IN  /\ raw.t = "jsontext"
        /\ d.name \in DOMAIN raw.d
        /\ raw.d[d.name] = [validator |-> d.validator, multi |-> d.multi,
                            accessibility |-> d.accessibility]
        /\ \A r \in ReservedNames : r \in DOMAIN raw.d /\ raw.d[r] = ReservedData[r]

\* the scenario is about a private field on which a value was set
PrivateValueSet == Scen.v # None /\ Scen.decl.accessibility = private

SurvivesFlush ==
    IF Scen.decl.multi
    THEN \A k \in DOMAIN Scen.v.q :
            LET enc == to_attribute(Scen.decl.validator, Scen.v.q[k])
            IN  enc.exc = "none" /\ from_attribute(Scen.decl.validator, enc.val) = Ok(Scen.v.q[k])
    ELSE LET enc == to_attribute(Scen.decl.validator, Scen.v)
         IN  /\ enc.exc = "none"
             /\ from_attribute(Scen.decl.validator, enc.val) = Ok(Scen.v)
             /\ ~Scen.driven

SlotValue(sc, n, name) ==
    IF sc[n].attrs[name].kind = "multi"
    THEN sc[n].attrs[name].elems
    ELSE sc[n].attrs[name].val

\* the field of the call record l in the heap hp
FieldIn(hp, l) == hp[InstOf(l.node)].fields[l.name]

\* C11: write() on a private field, single or multi, whose slot has an
\* incoming connection returns without an exception and leaves what the
\* slot stores as it was.
ConnectedSlotSkip ==
    [][(/\ last'.op = "write"
        /\ FieldIn(heap, last').cls \in {"Field", "MultiField"}
        /\ listConnections(scene, last'.node, last'.name))
       => /\ last'.exc = "none"
          /\ SlotValue(scene', last'.node, last'.name)
               = SlotValue(scene, last'.node, last'.name)]_vars

\* C12: write() on a single-value field, private or public, whose cached
\* value the validator cannot encode returns without an exception and
\* leaves the slot as it was, value and lock; so does the write() inside
\* set() of a public field.
SoftEncodeFailure ==
    [][(/\ \/ /\ last'.op = "write"
              /\ FieldIn(heap, last').cls \in {"Field", "PublicField"}
           \/ /\ last'.op = "set"
              /\ FieldIn(heap, last').cls = "PublicField"
        /\ to_attribute(FieldIn(heap', last').validator,
                        FieldIn(heap', last').value).exc # "none")
       => /\ last'.exc = "none"
          /\ scene'[last'.node].attrs[last'.name] = scene[last'.node].attrs[last'.name]]_vars

\* C12 witness: write() returned with the text "x" cached in the private
\* field count, whose slot is locked and holds the 1 of an earlier write.
SoftEncodeFailureWitness ==
    /\ last.op = "write" /\ last.exc = "none" /\ last.name = "count"
    /\ FieldOfCall(last).cls = "Field"
    /\ FieldOfCall(last).value = PyStr("x")
    /\ getLock(scene, "n1", "count")
    /\ getAttr(scene, "n1", "count") = PyInt(1)

\* the validator encodes the cached value of the field: the value of a
\* single-value field, every element of a multi field
Encodes(f) ==
    IF f.cls = "MultiField"
    THEN \A k \in DOMAIN f.value.q : to_attribute(f.validator, f.value.q[k]).exc = "none"
    ELSE to_attribute(f.validator, f.value).exc = "none"

\* the slot of the field stores the encoded cached value
HoldsEncoded(sc, n, name, f) ==
    IF f.cls = "MultiField"
    THEN SlotValue(sc, n, name)
           = [k \in DOMAIN f.value.q |-> to_attribute(f.validator, f.value.q[k]).val]
    ELSE SlotValue(sc, n, name) = to_attribute(f.validator, f.value).val

\* C13: a write_fields() over fields of which one has a cached value that
\* does not encode returns without an exception, whatever the class of
\* that field, and every other field that encodes and is not driven has
\* its slot written.
PartialFlushNoException ==
    (/\ last.op = "write_fields"
     /\ \E name \in DOMAIN heap[InstOf(last.node)].fields :
            ~Encodes(heap[InstOf(last.node)].fields[name]))
    => /\ last.exc = "none"
       /\ \A name \in DOMAIN heap[InstOf(last.node)].fields :
            LET f == heap[InstOf(last.node)].fields[name]
            IN  (Encodes(f) /\ ~listConnections(scene, last.node, name))
                => HoldsEncoded(scene, last.node, name, f)

\* C14: between calls the slot of every private single-value field of a
\* wrapped node is locked, from the declaration of the field onward.
PrivateSlotLocked ==
    \A n \in Nodes :
        Live(n) =>
            \A name \in DOMAIN heap[InstOf(n)].fields :
                heap[InstOf(n)].fields[name].cls = "Field" => getLock(scene, n, name)

\* the public fields of the wrapped node n in the heap hp
PublicFields(hp, n) ==
    {name \in DOMAIN hp[InstOf(n)].fields : hp[InstOf(n)].fields[name].cls = "PublicField"}

\* C15: the slot of every public field of a wrapped node is unlocked, after
\* add_field and after any sequence of set(), write() and write_fields().
PublicNeverLocked ==
    \A n \in Nodes :
        Live(n) => \A name \in PublicFields(heap, n) : ~getLock(scene, n, name)

\* the cached sequence of the multi field f, each element encoded
EncodedSeq(f) ==
    [k \in DOMAIN f.value.q |-> to_attribute(f.validator, f.value.q[k]).val]

\* C16: a write() that completes on a private multi field leaves in the
\* slot exactly the encoded cached sequence, in order and of the same
\* length, whatever the slot held before, and a read() that follows makes
\* get() return that encoded sequence.
MultiWriteFromScratch ==
    [][/\ (/\ last'.op = "write" /\ last'.exc = "none"
           /\ FieldIn(heap', last').cls = "MultiField")
          => SlotValue(scene', last'.node, last'.name) = EncodedSeq(FieldIn(heap', last'))
       /\ (/\ last.op = "write" /\ last.exc = "none"
           /\ last'.op = "read" /\ last'.node = last.node /\ last'.name = last.name
           /\ FieldIn(heap, last).cls = "MultiField")
          => /\ last'.exc = "none"
             /\ FieldGet(scene', last'.node, last'.name, FieldIn(heap', last')).ret
                  = PyList(EncodedSeq(FieldIn(heap, last)))]_vars

\* C16 witness: write() returned on items with the cached list ["0", 1],
\* and the slot holds the elements 0, 1.
MultiWriteFromScratchWitness ==
    /\ last.op = "write" /\ last.exc = "none" /\ last.name = "items"
    /\ FieldOfCall(last).value = PyList(<<PyStr("0"), PyInt(1)>>)
    /\ SlotValue(scene, "n1", "items") = <<PyInt(0), PyInt(1)>>

\* C17: after clear() on a private multi field get() returns the empty
\* list and the slot has no element left, whether or not the cached list
\* had been written to the slot before.
MultiClearEmpties ==
    [][(last'.op = "clear" /\ FieldIn(heap', last').cls = "MultiField")
       => /\ last'.exc = "none"
          /\ FieldGet(scene', last'.node, last'.name, FieldIn(heap', last')).ret = PyList(<<>>)
          /\ numElements(scene', last'.node, last'.name) = 0]_vars

\* C17 witness: clear() returned on items, the cached list is empty and
\* the slot has no element.
MultiClearEmptiesWitness ==
    /\ last.op = "clear" /\ last.exc = "none" /\ last.name = "items"
    /\ FieldOfCall(last).value = PyList(<<>>)
    /\ numElements(scene, "n1", "items") = 0

\* the slot holds no value: a multi slot without elements, a single slot
\* for which getAttr returns None
SlotEmpty(sc, n, name) ==
    IF sc[n].attrs[name].kind = "multi"
    THEN numElements(sc, n, name) = 0
    ELSE getAttr(sc, n, name) = None

\* C18: a read() of a private field, single or multi, whose slot is empty
\* keeps the cached value.
ReadKeepsCachedOnEmptySlot ==
    [][(/\ last'.op = "read"
        /\ FieldIn(heap, last').cls \in {"Field", "MultiField"}
        /\ SlotEmpty(scene, last'.node, last'.name))
       => FieldIn(heap', last').value = FieldIn(heap, last').value]_vars

\* the wrap recorded in l is one __new__ refuses in the scene sc with the
\* cache inst: its input is no name string, names no existing node, or
\* names an uncached node whose stored metanode_type is neither the
\* requested class nor one of its subclasses
WrapRefused(sc, inst, l) ==
    IF l.arg = PyStr(NotAString) THEN TRUE
    ELSE IF ~objExists(sc, l.node) THEN TRUE
    ELSE /\ inst[get_uuid(l.node)] = NoObj
         /\ attributeQuery(sc, l.node, "metanode_type")
         /\ getAttr(sc, l.node, "metanode_type") \notin {PyStr(k) : k \in Descendants(l.cls)}

\* the exception __new__ raises for the refused wrap recorded in l
RefusalOf(sc, l) ==
    IF l.arg = PyStr(NotAString) THEN "TypeError"
    ELSE IF ~objExists(sc, l.node) THEN "ValueError"
    ELSE "Exception"

\* C19: a wrap of an input that is no name string, of a name of no
\* existing node, or of an uncached node whose kind tag names no class of
\* the requested hierarchy raises and leaves the identity cache, the
\* objects and every attribute of the scene as they were.
FailedWrapChangesNothing ==
    [][(last'.op = "wrap" /\ WrapRefused(scene, instances, last'))
       => /\ last'.exc = RefusalOf(scene, last')
          /\ instances' = instances
          /\ heap' = heap
          /\ scene' = scene]_vars

\* C19 witness: a wrap of the existing, uncached node n1 raised Exception
\* over its kind tag; no instance is registered and the node has no
\* metanode_fields slot.
FailedWrapChangesNothingWitness ==
    /\ last.op = "wrap" /\ last.exc = "Exception" /\ last.node = "n1"
    /\ objExists(scene, "n1")
    /\ instances[get_uuid("n1")] = NoObj
    /\ getAttr(scene, "n1", "metanode_type") = PyStr("Ghost")
    /\ ~attributeQuery(scene, "n1", "metanode_fields")

\* C20: add_field with multi set and public accessibility raises
\* ValueError and changes nothing: no slot is created, no field is
\* registered under the name and the metanode_fields blob stays as it was.
MultiPublicRejected ==
    [][(/\ last'.op = "add_field"
        /\ last'.arg.multi
        /\ last'.arg.accessibility = public)
       => /\ last'.exc = "ValueError"
          /\ scene' = scene
          /\ heap' = heap
          /\ instances' = instances]_vars

\* C20 witness: add_field of the public multi declaration of items raised
\* ValueError on a node that has neither a field nor a slot named items and
\* whose blob has no entry for it.
MultiPublicRejectedWitness ==
    /\ last.op = "add_field" /\ last.exc = "ValueError"
    /\ last.arg.multi /\ last.arg.accessibility = public
    /\ "items" \notin DOMAIN BlobOf(heap[InstOf("n1")]).d
    /\ "items" \notin DOMAIN heap[InstOf("n1")].fields
    /\ ~attributeQuery(scene, "n1", "items")

\* the value serialize() is to report for the field f named name of node
\* n: the serialization of the cached value of a private field, of the
\* decoded slot value of a public field
CurrentValue(sc, n, name, f) ==
    IF f.cls = "PublicField"
    THEN ValidatorSerialize(f.validator,
                            from_attribute(f.validator, getAttr(sc, n, name)).val)
    ELSE IF f.cls = "MultiField" /\ ~Truthy(f.value) THEN PyList(<<>>)
    ELSE ValidatorSerialize(f.validator, f.value)

\* C22: serialize() returns a map whose keys are "uuid" and the declared
\* field names, reserved ones included; "uuid" maps to the uuid of the
\* node and every field name to the serialization of the current value of
\* the field, which for a public field is the value of its slot.
SerializeMap ==
    last.op = "serialize"
    => /\ DOMAIN last.ret.d = {"uuid"} \cup DOMAIN heap[InstOf(last.node)].fields
       /\ last.ret.d["uuid"] = PyStr(get_uuid(last.node))
       /\ \A name \in DOMAIN heap[InstOf(last.node)].fields :
            last.ret.d[name]
              = CurrentValue(scene, last.node, name, heap[InstOf(last.node)].fields[name])

\* the sequences of add_field calls add_default_fields can make on an
\* instance whose loaded schema blob describes the names S: metanode_fields,
\* the names of the blob in the order the dict yields them, then
\* metanode_type and is_initialized
DeclarationOrders(S) ==
    {<<"metanode_fields">> \o q \o <<"metanode_type", "is_initialized">> : q \in Orders(S)}

\* in the sequence q every reserved name occurs before the first custom one
ReservedFirst(q) ==
    \A j \in DOMAIN q :
        q[j] \notin ReservedNames
        => \A r \in ReservedNames : \E i \in 1..(j - 1) : q[i] = r

\* C23: after a successful wrap or create the node has the three reserved
\* attributes and the instance the three reserved fields, and the bootstrap
\* declared them before any custom field, also when it declared custom
\* fields again from a persisted schema blob.
ReservedFieldsFirst ==
    (last.op \in {"wrap", "new"} /\ last.exc = "none")
    => /\ \A r \in ReservedNames :
            /\ attributeQuery(scene, last.node, r)
            /\ r \in DOMAIN heap[last.ret.id].fields
       /\ \A q \in DeclarationOrders(DOMAIN heap[last.ret.id].fields) : ReservedFirst(q)

\* C24: add_field for a name the instance has already declared, with the
\* declaration it was made with, leaves the field as it is: the same cached
\* value, also when that value was set and not yet written.
RedeclarationKeepsField ==
    [][(/\ last'.op = "add_field" /\ last'.exc = "none"
        /\ last'.name \in DOMAIN heap[InstOf(last'.node)].fields
        /\ FieldIn(heap, last').cls = FieldIn(heap', last').cls
        /\ FieldIn(heap, last').validator = FieldIn(heap', last').validator)
       => FieldIn(heap', last').value = FieldIn(heap, last').value]_vars

\* C27: the schema blob held by the instance of a wrapped node has a
\* complete descriptor for every declared field name and for no other name.
SchemaMatchesFields ==
    \A n \in Nodes :
        Live(n) =>
            /\ BlobOf(heap[InstOf(n)]).t = "dict"
            /\ DOMAIN BlobOf(heap[InstOf(n)]).d = DOMAIN heap[InstOf(n)].fields
            /\ \A name \in DOMAIN BlobOf(heap[InstOf(n)]).d :
                 {"validator", "multi", "accessibility"}
                    \subseteq DOMAIN BlobOf(heap[InstOf(n)]).d[name]

\* C29: a write() on a private multi field of which a cached element fails
\* to encode leaves the elements of the slot as they were, each of them
\* locked.
MultiWriteAllOrNothing ==
    [][(/\ last'.op = "write"
        /\ FieldIn(heap, last').cls = "MultiField"
        /\ ~Encodes(FieldIn(heap, last')))
       => /\ SlotValue(scene', last'.node, last'.name) = SlotValue(scene, last'.node, last'.name)
          /\ \A k \in DOMAIN scene'[last'.node].attrs[last'.name].elock :
               scene'[last'.node].attrs[last'.name].elock[k]]_vars

\* C25: from_uuid of the uuid of an existing node returns what a wrap of
\* the node by name returns: an instance that has the reserved fields and
\* is the one the identity cache holds for the uuid, so that a second
\* from_uuid returns it again; from_uuid of a uuid of no node raises.
FromUuidLikeWrap ==
    last.op = "from_uuid"
    => IF ls(scene, last.arg.s) = {}
       THEN last.exc = "ValueError"
       ELSE /\ last.exc = "none"
            /\ instances[last.arg.s] = last.ret.id
            /\ ReservedNames \subseteq DOMAIN heap[last.ret.id].fields

\* the text raw of a slot names a living node of the scene sc
NamesNode(sc, raw) == raw # None /\ Truthy(raw) /\ ls(sc, raw.s) # {}

\* the cached value of the field of the call l in the heap hp is the
\* MetaNode the cache inst holds for the node the text raw names
YieldsCached(hp, inst, l, raw) ==
    /\ instances[raw.s] # NoObj => inst[raw.s] = instances[raw.s]
    /\ FieldIn(hp, l).value = ObjRef(inst[raw.s])

RefReadLeavesTarget ==
    [][(/\ last'.op \in {"read", "add_field"} /\ last'.name \in RefNames
        /\ attributeQuery(scene, last'.node, last'.name)
        /\ NamesNode(scene, getAttr(scene, last'.node, last'.name))
        /\ instances[getAttr(scene, last'.node, last'.name).s] # NoObj)
       => heap'[instances[getAttr(scene, last'.node, last'.name).s]]
            = heap[instances[getAttr(scene, last'.node, last'.name).s]]]_vars

\* whether v is a value of the kind the validator is for; a reference is
\* None or the MetaNode of a node living in the scene sc
InDomain(sc, hp, validator, v) ==
    CASE validator = "IntValidator" -> v.t = "int"
      [] validator = "FloatValidator" -> v.t = "float"
      [] validator = "BoolValidator" -> v.t = "bool"
      [] validator = "StringValidator" -> v.t = "str"
      [] validator = "MatrixValidator" -> v.t = "matrix"
      [] validator = "EnumValidator" -> v.t = "int"
      [] validator = "JsonValidator" -> v.t \in {"none", "dict", "str", "int", "bool"}
      [] validator = "MetaNodeValidator" ->
            v = None \/ (v.t = "obj" /\ objExists(sc, hp[v.id].node))
      [] OTHER -> FALSE

\* the call l2 is a read() of the private single field whose write() l
\* has just returned
ReadsBack(hp, l, l2) ==
    /\ l.op = "write" /\ l.exc = "none"
    /\ l2.op = "read" /\ l2.node = l.node /\ l2.name = l.name
    /\ FieldIn(hp, l2).cls = "Field"

\* C21: for every validator and every value v of its kind, a read() that
\* follows the write() of a private single field holding v returns without
\* an exception and leaves v as the value get() returns.
RoundTrip ==
    [][(/\ ReadsBack(heap, last, last')
        /\ InDomain(scene, heap, FieldIn(heap, last').validator,
                    FieldIn(heap, last').value))
       => /\ last'.exc = "none"
          /\ FieldIn(heap', last').value = FieldIn(heap, last').value]_vars

\* C21, amended: the same for every value but None on a field of
\* structured data, which comes back as the empty dict.
RoundTripButNone ==
    [][(/\ ReadsBack(heap, last, last')
        /\ InDomain(scene, heap, FieldIn(heap, last').validator,
                    FieldIn(heap, last').value))
       => /\ last'.exc = "none"
          /\ FieldIn(heap', last').value =
                IF /\ FieldIn(heap, last').validator = "JsonValidator"
                   /\ FieldIn(heap, last').value = None
                THEN PyDict(EmptyDict)
                ELSE FieldIn(heap, last').value]_vars

\* a read() has returned on a matrix field whose slot holds the 16 numbers
\* of the matrix that was set and written
RoundTripButNoneWitness ==
    /\ last.op = "read" /\ last.exc = "none" /\ last.name = "value"
    /\ FieldOfCall(last).validator = "MatrixValidator"
    /\ FieldOfCall(last).value = PyMatrix(TestMatrix)
    /\ getAttr(scene, last.node, last.name) = MatrixList(TestMatrix)

====
